---- MODULE Spec2Model ----
(***************************************************************************)
(* The process supervisor of selfdrive/manager/manager.py: manager_init,   *)
(* manager_thread (the reconciliation loop), manager_cleanup, main and the *)
(* __main__ block, as one sequential control thread (pc) interleaved with  *)
(* its environment: the device-state feed, the writers of the shutdown     *)
(* flags, the managed OS processes and the delivery of SIGTERM.            *)
(***************************************************************************)
EXTENDS Integers, Sequences, FiniteSets, TLC

\* ------------------------------------------------------------------ bounds
\* Loop ticks modelled (the loop itself is `while True`).
MaxTicks == 2
\* SIGTERM deliveries modelled.
MaxSignals == 2
\* Unexpected deaths of managed OS processes modelled.
MaxCrashes == 1
\* Changes of a feature flag by another process while the loop runs.
MaxToggles == 1

\* --------------------------------------------------------- the registry
\* managed_processes (process_config): the registry, in registry order.
managed_processes == <<"camerad", "dmonitoringd", "uploader">>

NProcs == Len(managed_processes)

Procs == {managed_processes[i] : i \in 1..NProcs}

\* ProcessSpec.eligibility of the registry's entries.
Eligibility(p) ==
  CASE p = "camerad"      -> "OnRoadOnly"
    [] p = "dmonitoringd" -> "OnRoadOnly"
    [] OTHER              -> "Always"

\* ProcessSpec.unkillable.
Unkillable(p) == p = "camerad"

\* ProcessSpec.persistent.
Persistent(p) == p = "uploader"

\* ------------------------------------------------------------ the store
\* The flags polled at the end of every tick, in the order of the poll.
ShutdownParams == <<"DoUninstall", "DoShutdown", "DoReboot", "dp_device_reset_conf">>

NParams == Len(ShutdownParams)

ParamNames == {ShutdownParams[i] : i \in 1..NParams}

\* ParamKeyType categories cleared by the supervisor.
Categories == {"CLEAR_ON_MANAGER_START", "CLEAR_ON_ONROAD_TRANSITION",
               "CLEAR_ON_OFFROAD_TRANSITION", "DEVELOPMENT_ONLY"}

\* LastManagerExitReason as an earlier run may have left it: unset, or the
\* reason of that run (timestamp 0, before this run's clock starts).
NoReason == <<>>

EarlierReason == <<"DoShutdown", 0>>

\* A key of the store that has no value: params.get returns None for it.
Absent == "<None>"

\* default_params as the list literal of lines 37-87 gives it.
default_params_base ==
  <<
    <<"CompletedTrainingVersion", "0">>,
    <<"DisengageOnAccelerator", "0">>,
    <<"GsmMetered", "1">>,
    <<"HasAcceptedTerms", "0">>,
    <<"LanguageSetting", "main_en">>,
    <<"OpenpilotEnabledToggle", "1">>,
    <<"LongitudinalPersonality", "standard">>,
    <<"dp_device_is_clone", "0">>,
    <<"dp_alka", "0">>,
    <<"dp_device_ip_addr", "">>,
    <<"dp_device_auto_shutdown", "0">>,
    <<"dp_device_auto_shutdown_in", "30">>,
    <<"dp_device_disable_temp_check", "0">>,
    <<"dp_device_display_off_mode", "0">>,
    <<"dp_device_audible_alert_mode", "0">>,
    <<"dp_toyota_auto_lock", "0">>,
    <<"dp_toyota_auto_unlock", "0">>,
    <<"dp_toyota_sng", "0">>,
    <<"dp_toyota_enhanced_bsm", "0">>,
    <<"dp_toyota_enhanced_long_tune", "0">>,
    <<"dp_fileserv", "0">>,
    <<"dp_otisserv", "0">>,
    <<"dp_long_accel_profile", "0">>,
    <<"dp_long_use_df_tune", "0">>,
    <<"dp_long_de2e", "0">>,
    <<"dp_device_dm_unavailable", "0">>,
    <<"dp_long_taco", "0">>,
    <<"dp_long_stock_mode", "0">>,
    <<"dp_long_missing_lead_warning", "0">>,
    <<"dp_lateral_road_edge_detection", "0">>,
    <<"dp_nav_voice_guidance", "0">>,
    <<"dp_long_use_krkeegen_tune", "0">>,
    <<"dp_toyota_zss", "0">>,
    <<"dp_long_accel_btn", "0">>,
    <<"dp_long_personality_btn", "0">>,
    <<"dp_disable_onroad_uploads", "0">>,
    <<"dp_long_frogai_smooth_braking_tune", "0">>,
    <<"dp_lat_lane_change_assist_speed", "20">>,
    <<"dp_device_display_flight_panel", "0">>,
    <<"dp_mapd_vision_turn_control", "0">>,
    <<"dp_nav_full_screen", "0">>,
    <<"dp_toyota_cruise_override", "0">>,
    <<"dp_toyota_cruise_override_speed", "30">>,
    <<"dp_ui_rainbow", "0">>,
    <<"dp_auto_lane_change", "0">>
  >>

\* default_params with the entry appended by lines 88-89 on a device.
default_params(is_pc) ==
  IF is_pc THEN default_params_base
  ELSE Append(default_params_base, <<"LastUpdateTime", "utcnow">>)

DefaultKeys == {default_params(FALSE)[i][1] : i \in 1..Len(default_params(FALSE))}

\* The version params written by lines 110-117.
VersionKeys == {"Version", "TermsVersion", "TrainingVersion", "GitCommit", "GitBranch",
                "GitRemote", "IsTestedBranch", "IsReleaseBranch"}

\* One key of the store per clearing category.
TaggedKeys == {"key_manager_start", "key_onroad", "key_offroad", "key_development"}

\* The clearing category a key is tagged with; every other key is persistent.
CategoryOf(k) ==
  CASE k = "key_manager_start" -> "CLEAR_ON_MANAGER_START"
    [] k = "key_onroad"        -> "CLEAR_ON_ONROAD_TRANSITION"
    [] k = "key_offroad"       -> "CLEAR_ON_OFFROAD_TRANSITION"
    [] k = "key_development"   -> "DEVELOPMENT_ONLY"
    [] OTHER                   -> "PERSISTENT"

\* The keys of the store the supervisor reads or writes, the shutdown flags,
\* LastManagerExitReason and IsOnroad apart (flags, exitReason, isOnroad).
Keys == DefaultKeys \cup VersionKeys \cup TaggedKeys
          \cup {"dp_car_list", "RecordFrontLock", "RecordFront"}

\* The keys whose file matches /data/params/d/dp_* (line 235).
DpKeys ==
  {
    "dp_device_is_clone", "dp_alka", "dp_device_ip_addr", "dp_device_auto_shutdown",
    "dp_device_auto_shutdown_in", "dp_device_disable_temp_check",
    "dp_device_display_off_mode", "dp_device_audible_alert_mode",
    "dp_toyota_auto_lock", "dp_toyota_auto_unlock", "dp_toyota_sng",
    "dp_toyota_enhanced_bsm", "dp_toyota_enhanced_long_tune", "dp_fileserv",
    "dp_otisserv", "dp_long_accel_profile", "dp_long_use_df_tune", "dp_long_de2e",
    "dp_device_dm_unavailable", "dp_long_taco", "dp_long_stock_mode",
    "dp_long_missing_lead_warning", "dp_lateral_road_edge_detection",
    "dp_nav_voice_guidance", "dp_long_use_krkeegen_tune", "dp_toyota_zss",
    "dp_long_accel_btn", "dp_long_personality_btn", "dp_disable_onroad_uploads",
    "dp_long_frogai_smooth_braking_tune", "dp_lat_lane_change_assist_speed",
    "dp_device_display_flight_panel", "dp_mapd_vision_turn_control",
    "dp_nav_full_screen", "dp_toyota_cruise_override",
    "dp_toyota_cruise_override_speed", "dp_ui_rainbow", "dp_auto_lane_change",
    "dp_car_list"
  }

\* The keys an earlier run or the user may or may not have left a value for,
\* as drawn by InitStore.
StoredKeys == {"GsmMetered", "dp_device_dm_unavailable", "dp_fileserv", "RecordFrontLock"}

\* The value such a key was left with: not the default of the key.
StoredValue(k) == IF k = "GsmMetered" THEN "0" ELSE "1"

\* The store in which exactly the keys of a set were left with a value.
StoreOf(keys) == [k \in Keys |-> IF k \in keys THEN StoredValue(k) ELSE Absent]

\* params.get_bool: true for the value "1" only.
get_bool(store, k) == store[k] = "1"

\* The value params.put_bool writes.
BoolValue(b) == IF b THEN "1" ELSE "0"

\* params.clear_all(category): removes every key tagged with the category.
clear_all(store, c) == [k \in Keys |-> IF CategoryOf(k) = c THEN Absent ELSE store[k]]

VARIABLES
  pc,            \* position of the control thread
  idx,           \* loop index of the poll (232) and of manager_cleanup (151, 155)
  registered,    \* register() returned a device identity
  handler,       \* the SIGTERM handler of line 250 is installed
  exc,           \* exception in flight through main's try statement
  procState,     \* ProcessRuntime.state of every registry entry
  live,          \* number of live OS processes of every registry entry
  prepared,      \* number of prepare() calls per registry entry
  flags,         \* the shutdown flags of the store
  exitReason,    \* LastManagerExitReason
  isOnroad,      \* the on-road flag written by write_onroad_params
  initClears,    \* clear_all calls made by manager_init, per category
  params,        \* the other keys of the store: their value, Absent if none
  ignore,        \* manager_thread's ignore list
  ignoreIn,      \* what lines 168-192 read to build it
  smStarted,     \* sm['deviceState'].started, as held by the SubMaster
  started,       \* manager_thread's local `started`
  started_prev,  \* manager_thread's local `started_prev`
  shutdown,      \* manager_thread's local `shutdown`
  now,           \* the clock: number of the current tick
  msg,           \* manager_thread's local `msg`: the managerState message sent
  reported,      \* sentry.capture_exception has been called
  deviceAction,  \* HARDWARE action performed by main
  exitCode,      \* exit code of the supervisor process, -1 while it runs
  loopEnd,       \* how manager_thread ended
  sigCount,      \* SIGTERMs delivered
  crashes,       \* unexpected process deaths so far
  toggles,       \* feature-flag changes by other processes so far
  \* fixed when the supervisor starts
  environ,       \* os.environ: NOBOARD set or not, BLOCK split at the commas
  release,       \* is_release_branch()
  PC,            \* system.hardware.PC
  stored,        \* the keys that had a value when the supervisor started
  reason0,       \* LastManagerExitReason when the run started
  \* history of the run, read by the properties only
  onRoadCur,     \* onRoad of the current tick
  onRoadPrev,    \* onRoad of the tick before
  tickClears,    \* clear_all calls of the loop in the current tick, per category
  tickPubs,      \* managerState messages sent in the current tick
  tickWrites,    \* writes of LastManagerExitReason in the current tick
  pollSeen,      \* flags read true by the current tick's poll
  nbStops,       \* stop(block=False) calls of manager_cleanup, per entry
  bStops,        \* stop(block=True) calls of manager_cleanup, per entry
  loopStops,     \* stop() calls made while the loop runs, per entry
  initSteps,     \* the steps of manager_init taken so far, in order
  tickSteps,     \* the steps of the current tick taken so far, in order
  tickStarts,    \* entries started by the current tick's reconcile
  tickNotRun,    \* not_run as passed to the current tick's reconcile
  onroadWrites   \* write_onroad_params calls since the last sample

vars == <<pc, idx, registered, handler, exc, procState, live, prepared, flags, exitReason,
          isOnroad, initClears, params, ignore, ignoreIn, smStarted, started,
          started_prev, shutdown, now, msg, reported, deviceAction, exitCode, loopEnd,
          sigCount, crashes, toggles, environ, release, PC, stored, reason0,
          onRoadCur, onRoadPrev, tickClears, tickPubs, tickWrites, pollSeen,
          nbStops, bStops, loopStops, initSteps, tickSteps, tickStarts, tickNotRun,
          onroadWrites>>

\* variable groups, for UNCHANGED
procVars == <<procState, live, prepared>>
storeVars == <<flags, exitReason, isOnroad, initClears, params>>
loopVars == <<ignore, ignoreIn, smStarted, started, started_prev, shutdown, now, msg>>
endVars == <<reported, deviceAction, exitCode, loopEnd>>
envVars == <<sigCount, crashes, toggles>>
startVars == <<environ, release, PC, stored, reason0>>
tickHist == <<onRoadCur, onRoadPrev, tickClears, tickPubs, tickWrites, pollSeen,
              tickSteps, tickStarts, tickNotRun, onroadWrites>>
stopHist == <<nbStops, bStops, loopStops>>

NoClears == [c \in Categories |-> 0]

\* What manager_thread read for the ignore list, while it is not running.
NoIgnoreIn == [dongle_unreg |-> FALSE, noboard |-> FALSE, block |-> <<>>,
               dp_fileserv |-> FALSE, dp_otisserv |-> FALSE,
               dp_device_dm_unavailable |-> FALSE, dp_device_is_clone |-> FALSE]

\* The state when main is entered, but for what the supervisor finds.
InitControl ==
  /\ pc = "manager_init"
  /\ idx = 0
  /\ registered = FALSE
  /\ handler = FALSE
  /\ exc = "none"
  /\ procState = [p \in Procs |-> "NotStarted"]
  /\ live = [p \in Procs |-> 0]
  /\ prepared = [p \in Procs |-> 0]
  /\ flags = [f \in ParamNames |-> FALSE]
  /\ isOnroad = "unset"
  /\ initClears = NoClears
  /\ ignore = <<>>
  /\ ignoreIn = NoIgnoreIn
  /\ smStarted = FALSE
  /\ started = FALSE
  /\ started_prev = FALSE
  /\ shutdown = FALSE
  /\ now = 0
  /\ msg = <<>>
  /\ reported = FALSE
  /\ deviceAction = "none"
  /\ exitCode = -1
  /\ loopEnd = "none"
  /\ sigCount = 0
  /\ crashes = 0
  /\ toggles = 0
  /\ onRoadCur = FALSE
  /\ onRoadPrev = FALSE
  /\ tickClears = NoClears
  /\ tickPubs = 0
  /\ tickWrites = 0
  /\ pollSeen = {}
  /\ nbStops = [p \in Procs |-> 0]
  /\ bStops = [p \in Procs |-> 0]
  /\ loopStops = [p \in Procs |-> 0]
  /\ initSteps = <<>>
  /\ tickSteps = <<>>
  /\ tickStarts = {}
  /\ tickNotRun = <<>>
  /\ onroadWrites = 0

\* A first start on a device, or a start after an earlier run left its exit
\* reason; a release build, nothing set in the environment.
Init ==
  /\ InitControl
  /\ exitReason \in {NoReason, EarlierReason}
  /\ reason0 = exitReason
  /\ stored = {}
  /\ params = StoreOf(stored)
  /\ environ = [NOBOARD |-> FALSE, BLOCK |-> <<>>]
  /\ release = TRUE
  /\ PC = FALSE

\* ------------------------------------------------------- pure helpers
ToSet(s) == {s[i] : i \in 1..Len(s)}

\* The ignore list as manager_thread builds it, append by append.
IgnoreListDmKept(dongle_unreg, noboard, block, dp_fileserv, dp_otisserv, dp_device_dm_unavailable, dp_device_is_clone) ==
  LET i1 == IF dongle_unreg THEN <<"manage_athenad", "uploader">> ELSE <<>>
      i2 == IF noboard THEN <<"pandad">> ELSE <<>>
      i3 == block
      i4 == IF ~dp_fileserv THEN <<"fileserv">> ELSE <<>>
      i5 == IF ~dp_otisserv THEN <<"otisserv">> ELSE <<>>
      i6 == IF dp_device_is_clone \/ dp_device_dm_unavailable
            THEN <<"uploader">> \o
                 <<>>
            ELSE <<>>
      dpdmonitoringd_ignored ==
        ~((dp_device_is_clone \/ dp_device_dm_unavailable) /\ dp_device_dm_unavailable)
      i7 == IF dpdmonitoringd_ignored THEN <<"dpdmonitoringd">> ELSE <<>>
  IN i1 \o i2 \o i3 \o i4 \o i5 \o i6 \o i7

IgnoreList(dongle_unreg, noboard, block, dp_fileserv, dp_otisserv, dp_device_dm_unavailable, dp_device_is_clone) ==
  LET i1 == IF dongle_unreg THEN <<"manage_athenad", "uploader">> ELSE <<>>
      i2 == IF noboard THEN <<"pandad">> ELSE <<>>
      i3 == block
      i4 == IF ~dp_fileserv THEN <<"fileserv">> ELSE <<>>
      i5 == IF ~dp_otisserv THEN <<"otisserv">> ELSE <<>>
      i6 == IF dp_device_is_clone \/ dp_device_dm_unavailable
            THEN <<"uploader">> \o
                 (IF dp_device_dm_unavailable
                  THEN <<"dmonitoringd", "dmonitoringmodeld">> ELSE <<>>)
            ELSE <<>>
      dpdmonitoringd_ignored ==
        ~((dp_device_is_clone \/ dp_device_dm_unavailable) /\ dp_device_dm_unavailable)
      i7 == IF dpdmonitoringd_ignored THEN <<"dpdmonitoringd">> ELSE <<>>
  IN i1 \o i2 \o i3 \o i4 \o i5 \o i6 \o i7

\* The values of BLOCK the model draws from.
BlockLists == {<<>>, <<"uploader">>}

\* The ignore list lines 168-192 build from what they read.
IgnoreListOf(in) == IgnoreList(in.dongle_unreg, in.noboard, in.block, in.dp_fileserv, in.dp_otisserv, in.dp_device_dm_unavailable, in.dp_device_is_clone)

\* not_run as lines 198 and 218 pass it to ensure_running: the list built
\* before the loop.
NotRunRecomputed(ign, store, in) ==
  IgnoreListOf([in EXCEPT !.dp_fileserv = get_bool(store, "dp_fileserv"),
                          !.dp_otisserv = get_bool(store, "dp_otisserv"),
                          !.dp_device_dm_unavailable =
                              get_bool(store, "dp_device_dm_unavailable")])

NotRun(ign, store, in) == ign

\* The categories manager_init clears, in the order of lines 31-35.
InitCategoriesAlwaysDev(rel) ==
  <<"CLEAR_ON_MANAGER_START", "CLEAR_ON_ONROAD_TRANSITION",
    "CLEAR_ON_OFFROAD_TRANSITION", "DEVELOPMENT_ONLY">>

InitCategoriesStartOnly(rel) ==
  <<"CLEAR_ON_MANAGER_START">> \o (IF rel THEN <<"DEVELOPMENT_ONLY">> ELSE <<>>)

InitCategories(rel) ==
  <<"CLEAR_ON_MANAGER_START", "CLEAR_ON_ONROAD_TRANSITION",
    "CLEAR_ON_OFFROAD_TRANSITION">> \o (IF rel THEN <<"DEVELOPMENT_ONLY">> ELSE <<>>)

\* The store after clear_all for each category of a list, in order.
ClearEach(store, cats) ==
  LET f[i \in 0..Len(cats)] == IF i = 0 THEN store ELSE clear_all(f[i - 1], cats[i])
  IN  f[Len(cats)]

\* `if params.get(k) is None` (98): the key has no value yet.
NeedsDefaultAlways(store, k) == TRUE

NeedsDefault(store, k) == store[k] = Absent

\* Lines 97-99: the loop over default_params, pair after pair; a key ends
\* with what the pairs naming it, taken in the order of the list, leave it with.
SetDefaults(store, list) ==
  [k \in Keys |->
     LET mine == SelectSeq(list, LAMBDA pr : pr[1] = k)
         f[i \in 0..Len(mine)] ==
           IF i = 0 THEN store[k]
           ELSE LET cur == f[i - 1]
                IN  IF NeedsDefault([store EXCEPT ![k] = cur], k) THEN mine[i][2] ELSE cur
     IN  f[Len(mine)]]

\* Lines 91-94: dp_car_list is written, RecordFront is set when RecordFrontLock is.
SetCarList(store) ==
  LET s1 == [store EXCEPT !["dp_car_list"] = "cars"]
  IN  IF get_bool(s1, "RecordFrontLock")
        THEN [s1 EXCEPT !["RecordFront"] = BoolValue(TRUE)] ELSE s1

\* Lines 110-117: the version params; the build's values but for the branch
\* kind.
SetVersion(store, rel) ==
  [k \in Keys |->
     IF k = "IsReleaseBranch" THEN BoolValue(rel)
     ELSE IF k \in VersionKeys THEN "build"
     ELSE store[k]]

\* Line 235: `rm -fr /data/params/d/dp_*`.
RemoveDp(store) == [k \in Keys |-> IF k \in DpKeys THEN Absent ELSE store[k]]

\* The processes manager_init prepares: managed_processes.values() (145).
PrepareTargetsAlwaysOnly ==
  SelectSeq(managed_processes, LAMBDA p : Eligibility(p) = "Always")

PrepareTargets == managed_processes

\* `if started != started_prev` (213).
OnroadChangedRisingOnly(s, sp) == s /\ ~sp

OnroadChanged(s, sp) == s # sp

\* The statement of the loop body that follows a statement (203-241).
StepAfterReconcileFirst(step) ==
  CASE step = "sample"    -> "reconcile"
    [] step = "reconcile" -> "edge"
    [] step = "edge"      -> "persist"
    [] step = "persist"   -> "publish"
    [] step = "publish"   -> "poll"
    [] OTHER              -> "check"

StepAfter(step) ==
  CASE step = "sample"    -> "edge"
    [] step = "edge"      -> "persist"
    [] step = "persist"   -> "reconcile"
    [] step = "reconcile" -> "publish"
    [] step = "publish"   -> "poll"
    [] OTHER              -> "check"

\* Lines 260-269: the HARDWARE calls main makes for the flags it reads, one
\* if/elif chain.
DeviceActionsEachFlag(f) ==
  (IF f["DoUninstall"] THEN <<"uninstall">> ELSE <<>>)
    \o (IF f["DoReboot"] THEN <<"reboot">> ELSE <<>>)
    \o (IF f["DoShutdown"] THEN <<"shutdown">> ELSE <<>>)

DeviceActions(f) ==
  IF f["DoUninstall"] THEN <<"uninstall">>
  ELSE IF f["DoReboot"] THEN <<"reboot">>
  ELSE IF f["DoShutdown"] THEN <<"shutdown">>
  ELSE <<>>

\* `started and not started_prev`: the false->true edge.
OnroadEdgeNoPrev(s, sp) == s

OnroadEdge(s, sp) == s /\ ~sp

\* `not started and started_prev`: the true->false edge.
OffroadEdge(s, sp) == ~s /\ sp

\* The value written to LastManagerExitReason for a flag read true.
ExitReasonNoTime(param, t) == <<param, 0>>

ExitReasonValue(param, t) == <<param, t>>

\* `if shutdown: break`.
BreakIgnored(sd) == FALSE

LoopBreaks(sd) == sd

\* The processes manager_cleanup iterates over: managed_processes.values().
CleanupOrderKillableOnly == SelectSeq(managed_processes, LAMBDA p : ~Unkillable(p))

CleanupOrder == managed_processes

\* Where control goes when the try statement of main is left: its finally
\* clause, which calls manager_cleanup.
FinallyTargetSkipsCleanup == "device"

FinallyTarget == "cleanup_nb"

\* Exit code of the supervisor process: the uncaught exception re-raised by
\* __main__ (306) and the handler's sys.exit(1) (250) give 1, sys.exit(0)
\* (309) gives 0.
ExitCodeAlwaysZero(how) == 0

ExitCodeOf(how) == IF how \in {"uncaught", "sigterm"} THEN 1 ELSE 0

\* One entry of the managerState message (get_process_state_msg).
ProcessStateMsg(p) == [name |-> p, state |-> procState[p]]

\* The managerState message: one entry per process, in registry order.
ManagerStateMsgStartedOnly ==
  LET ps == SelectSeq(managed_processes, LAMBDA p : procState[p] # "NotStarted")
  IN  [i \in 1..Len(ps) |-> ProcessStateMsg(ps[i])]

ManagerStateMsg == [i \in 1..NProcs |-> ProcessStateMsg(managed_processes[i])]

\* --------------------------------------- the lifecycle controllers
Eligible(p, onroad) ==
  CASE Eligibility(p) = "Always"      -> TRUE
    [] Eligibility(p) = "OnRoadOnly"  -> onroad
    [] Eligibility(p) = "OffRoadOnly" -> ~onroad
    [] OTHER                          -> FALSE

\* resolve(specs, ctx): the desired set.
Desired(onroad, not_run) ==
  {p \in Procs : p \notin ToSet(not_run) /\ Eligible(p, onroad)}

\* pollLiveness: a Running controller whose process is gone becomes Crashed.
Polled(p) ==
  IF procState[p] = "Running" /\ live[p] = 0 THEN "Crashed" ELSE procState[p]

\* start() is called for a controller that is down and desired (or crashed
\* and persistent).
ShouldStartNotRunning(p, st, des) ==
  st # "Running" /\ (des \/ (st = "Crashed" /\ Persistent(p)))

ShouldStart(p, st, des) ==
  /\ st \in {"NotStarted", "Stopped", "Crashed"}
  /\ des \/ (st = "Crashed" /\ Persistent(p))

\* stop() is called for a controller that is up, not desired and killable.
ShouldStopAnyUndesired(p, st, des) == ~des /\ st \in {"Starting", "Running"}

ShouldStop(p, st, des) ==
  ~des /\ st \in {"Starting", "Running"} /\ ~Unkillable(p)

\* ensure_running: one reconciliation of the registry against the desired set.
ensure_running(onroad, not_run) ==
  LET des(p) == p \in Desired(onroad, not_run)
      go(p) == ShouldStart(p, Polled(p), des(p))
      halt(p) == ~go(p) /\ ShouldStop(p, Polled(p), des(p))
  IN /\ procState' = [p \in Procs |->
                        IF go(p) THEN "Starting"
                        ELSE IF halt(p) THEN "Stopped" ELSE Polled(p)]
     /\ live' = [p \in Procs |->
                   IF go(p) THEN live[p] + 1
                   ELSE IF halt(p) THEN 0 ELSE live[p]]
     /\ loopStops' = [p \in Procs |-> IF halt(p) THEN 1 ELSE loopStops[p]]
     /\ tickStarts' = {p \in Procs : go(p)}
     /\ tickNotRun' = not_run

\* stop(block=False): the termination request is sent, the call returns.
StopNonBlocking(p) ==
  procState' = [procState EXCEPT ![p] =
                  IF @ \in {"Starting", "Running"} THEN "Stopping" ELSE @]

\* stop(block=True): returns once the process is gone (killed if need be).
StopBlocking(p) ==
  /\ procState' = [procState EXCEPT ![p] =
                     IF @ \in {"Starting", "Running", "Stopping"} THEN "Stopped" ELSE @]
  /\ live' = [live EXCEPT ![p] =
                IF procState[p] \in {"Starting", "Running", "Stopping"} THEN 0 ELSE @]

\* ------------------------------------------------ positions of control
\* Inside manager_thread, before the loop and inside a tick.
ThreadPcs == {"mt_ignore", "mt_onroad", "mt_first", "sample", "edge", "persist",
              "reconcile", "publish", "poll", "check"}

\* Inside the try statement of main (its except clause included).
TryPcs == ThreadPcs \cup {"except"}

CleanupPcs == {"cleanup_nb", "cleanup_b", "cleanup_end"}

\* manager_thread is left (break, exception or SystemExit): its locals are
\* gone, and the history of the current tick is closed.
LeaveThread ==
  /\ ignore' = <<>>
  /\ ignoreIn' = NoIgnoreIn
  /\ smStarted' = FALSE
  /\ started' = FALSE
  /\ started_prev' = FALSE
  /\ shutdown' = FALSE
  /\ msg' = <<>>
  /\ onRoadCur' = FALSE
  /\ onRoadPrev' = FALSE
  /\ tickClears' = NoClears
  /\ tickPubs' = 0
  /\ tickSteps' = <<>>
  /\ tickStarts' = {}
  /\ tickNotRun' = <<>>
  /\ onroadWrites' = 0
  /\ UNCHANGED <<now, tickWrites, pollSeen>>

\* ------------------------------------------------------------- startup
\* manager_init, lines 28-35: clear the categories.
manager_init_clear ==
  /\ pc = "manager_init"
  /\ params' = ClearEach(params, InitCategories(release))
  /\ initClears' = [c \in Categories |->
                      IF c \in ToSet(InitCategories(release)) THEN initClears[c] + 1
                      ELSE initClears[c]]
  /\ initSteps' = Append(initSteps, "clear")
  /\ pc' = "init_defaults"
  /\ UNCHANGED <<idx, registered, handler, exc, procVars, flags, exitReason, isOnroad,
                 loopVars, endVars, envVars, startVars, tickHist, stopHist>>

\* manager_init, lines 37-99: dp_car_list, RecordFront, then the defaults.
manager_init_defaults ==
  /\ pc = "init_defaults"
  /\ params' = SetDefaults(SetCarList(params), default_params(PC))
  /\ initSteps' = Append(initSteps, "defaults")
  /\ pc' = "init_register"
  /\ UNCHANGED <<idx, registered, handler, exc, procVars, flags, exitReason, isOnroad,
                 initClears, loopVars, endVars, envVars, startVars, tickHist, stopHist>>

\* manager_init, lines 101-142: the version params, then register(); a failed
\* registration raises.
manager_init_register ==
  /\ pc = "init_register"
  /\ params' = SetVersion(params, release)
  /\ initSteps' = Append(initSteps, "register")
  /\ \E reg_res \in BOOLEAN :
       /\ registered' = reg_res
       /\ IF reg_res
            THEN pc' = "init_prepare" /\ exc' = exc
            ELSE pc' = "start_failed" /\ exc' = "Exception"
  /\ UNCHANGED <<idx, handler, procVars, flags, exitReason, isOnroad, initClears,
                 loopVars, endVars, envVars, startVars, tickHist, stopHist>>

\* manager_init, lines 144-146: prepare() for every process.
manager_init_prepare ==
  /\ pc = "init_prepare"
  /\ prepared' = [p \in Procs |->
                    IF p \in ToSet(PrepareTargets) THEN prepared[p] + 1 ELSE prepared[p]]
  /\ initSteps' = Append(initSteps, "prepare")
  /\ pc' = "prepareonly"
  /\ UNCHANGED <<idx, registered, handler, exc, procState, live, storeVars, loopVars,
                 endVars, envVars, startVars, tickHist, stopHist>>

\* main, line 246: PREPAREONLY returns right after manager_init.
main_prepareonly ==
  /\ pc = "prepareonly"
  /\ \E prepare_only \in BOOLEAN :
       pc' = IF prepare_only THEN "sys_exit" ELSE "install"
  /\ UNCHANGED <<idx, registered, handler, exc, procVars, storeVars, loopVars, endVars,
                 envVars, tickHist, stopHist, startVars, initSteps>>

\* main, line 250: install the SIGTERM handler, then enter the try statement.
main_install ==
  /\ pc = "install"
  /\ handler' = TRUE
  /\ pc' = "mt_ignore"
  /\ UNCHANGED <<idx, registered, exc, procVars, storeVars, loopVars, endVars, envVars,
                 tickHist, stopHist, startVars, initSteps>>

\* __main__, lines 291-306: manager_init raised; stop the ui (not started, a
\* no-op), show the error, re-raise.
main_failed ==
  /\ pc = "start_failed"
  /\ exitCode' = ExitCodeOf("uncaught")
  /\ pc' = "exited"
  /\ UNCHANGED <<idx, registered, handler, exc, procVars, storeVars, loopVars, reported,
                 deviceAction, loopEnd, envVars, tickHist, stopHist, startVars, initSteps>>

\* __main__, line 309: sys.exit(0) once main has returned.
sys_exit ==
  /\ pc = "sys_exit"
  /\ exitCode' = ExitCodeOf("returned")
  /\ pc' = "exited"
  /\ UNCHANGED <<idx, registered, handler, exc, procVars, storeVars, loopVars, reported,
                 deviceAction, loopEnd, envVars, tickHist, stopHist, startVars, initSteps>>

\* ------------------------------------------------------ manager_thread
\* Lines 162-195: build the ignore list, open the message sockets.
mt_ignore ==
  /\ pc = "mt_ignore"
  /\ \E unreg \in BOOLEAN, clone \in BOOLEAN :
       LET in == [dongle_unreg |-> unreg,
                  noboard |-> environ.NOBOARD,
                  block |-> environ.BLOCK,
                  dp_fileserv |-> get_bool(params, "dp_fileserv"),
                  dp_otisserv |-> get_bool(params, "dp_otisserv"),
                  dp_device_dm_unavailable |-> get_bool(params, "dp_device_dm_unavailable"),
                  dp_device_is_clone |-> clone]
       IN /\ ignoreIn' = in
          /\ ignore' = IgnoreListOf(in)
          /\ params' = [params EXCEPT !["dp_device_is_clone"] = BoolValue(clone)]
  /\ pc' = "mt_onroad"
  /\ UNCHANGED <<idx, registered, handler, exc, procVars, flags, exitReason, isOnroad,
                 initClears, smStarted, started, started_prev, shutdown, now, msg,
                 endVars, envVars, tickHist, stopHist, startVars, initSteps>>

\* Line 197: write_onroad_params(False).
mt_onroad ==
  /\ pc = "mt_onroad"
  /\ isOnroad' = "False"
  /\ onroadWrites' = onroadWrites + 1
  /\ pc' = "mt_first"
  /\ UNCHANGED <<idx, registered, handler, exc, procVars, flags, exitReason, initClears,
                 params, loopVars, endVars, envVars, onRoadCur, onRoadPrev, tickClears,
                 tickPubs, tickWrites, pollSeen, tickSteps, tickStarts, tickNotRun,
                 stopHist, startVars, initSteps>>

\* Lines 198-200: reconcile once, started_prev = False.
mt_first ==
  /\ pc = "mt_first"
  /\ ensure_running(FALSE, NotRun(ignore, params, ignoreIn))
  /\ started_prev' = FALSE
  /\ pc' = "sample"
  /\ UNCHANGED <<idx, registered, handler, exc, prepared, storeVars, ignore, ignoreIn,
                 smStarted, started, shutdown, now, msg, endVars, envVars, onRoadCur,
                 onRoadPrev, tickClears, tickPubs, tickWrites, pollSeen, tickSteps,
                 onroadWrites, nbStops, bStops, startVars, initSteps>>

\* Lines 203-205: sm.update() takes the fresh sample if one arrived and keeps
\* the previous value otherwise; started is read from it.
tick_sample ==
  /\ pc = "sample"
  /\ now < MaxTicks
  /\ \E fresh \in BOOLEAN, sample \in BOOLEAN :
       /\ smStarted' = IF fresh THEN sample ELSE smStarted
       /\ started' = smStarted'
       /\ onRoadCur' = smStarted'
  /\ onRoadPrev' = onRoadCur
  /\ now' = now + 1
  /\ tickClears' = NoClears
  /\ tickPubs' = 0
  /\ tickWrites' = 0
  /\ pollSeen' = {}
  /\ tickSteps' = <<"sample">>
  /\ tickStarts' = {}
  /\ tickNotRun' = <<>>
  /\ onroadWrites' = 0
  /\ pc' = StepAfter("sample")
  /\ UNCHANGED <<idx, registered, handler, exc, procVars, storeVars, ignore, ignoreIn,
                 started_prev, shutdown, msg, endVars, envVars, stopHist, startVars,
                 initSteps>>

\* Lines 207-210: clear the category of the edge.
tick_edge ==
  /\ pc = "edge"
  /\ LET c == IF OnroadEdge(started, started_prev) THEN "CLEAR_ON_ONROAD_TRANSITION"
              ELSE IF OffroadEdge(started, started_prev) THEN "CLEAR_ON_OFFROAD_TRANSITION"
              ELSE "none"
     IN IF c = "none"
          THEN UNCHANGED <<tickClears, params>>
          ELSE /\ tickClears' = [tickClears EXCEPT ![c] = @ + 1]
               /\ params' = clear_all(params, c)
  /\ tickSteps' = Append(tickSteps, "edge")
  /\ pc' = StepAfter("edge")
  /\ UNCHANGED <<idx, registered, handler, exc, procVars, flags, exitReason, isOnroad,
                 initClears, loopVars, endVars, envVars, onRoadCur, onRoadPrev, tickPubs,
                 tickWrites, pollSeen, tickStarts, tickNotRun, onroadWrites, stopHist,
                 startVars, initSteps>>

\* Lines 213-216: persist the on-road flag on a change, remember the value.
tick_persist ==
  /\ pc = "persist"
  /\ IF OnroadChanged(started, started_prev)
       THEN /\ isOnroad' = IF started THEN "True" ELSE "False"
            /\ onroadWrites' = onroadWrites + 1
       ELSE UNCHANGED <<isOnroad, onroadWrites>>
  /\ started_prev' = started
  /\ tickSteps' = Append(tickSteps, "persist")
  /\ pc' = StepAfter("persist")
  /\ UNCHANGED <<idx, registered, handler, exc, procVars, flags, exitReason, initClears,
                 params, ignore, ignoreIn, smStarted, started, shutdown, now, msg,
                 endVars, envVars, onRoadCur, onRoadPrev, tickClears, tickPubs,
                 tickWrites, pollSeen, tickStarts, tickNotRun, stopHist, startVars,
                 initSteps>>

\* Line 218: reconcile.
tick_reconcile ==
  /\ pc = "reconcile"
  /\ ensure_running(started, NotRun(ignore, params, ignoreIn))
  /\ tickSteps' = Append(tickSteps, "reconcile")
  /\ pc' = StepAfter("reconcile")
  /\ UNCHANGED <<idx, registered, handler, exc, prepared, storeVars, loopVars, endVars,
                 envVars, onRoadCur, onRoadPrev, tickClears, tickPubs, tickWrites,
                 pollSeen, onroadWrites, nbStops, bStops, startVars, initSteps>>

\* Lines 220-231: send managerState; `shutdown = False` opens the poll.
tick_publish ==
  /\ pc = "publish"
  /\ msg' = ManagerStateMsg
  /\ tickPubs' = tickPubs + 1
  /\ shutdown' = FALSE
  /\ idx' = 1
  /\ tickSteps' = Append(tickSteps, "publish")
  /\ pc' = StepAfter("publish")
  /\ UNCHANGED <<registered, handler, exc, procVars, storeVars, ignore, ignoreIn,
                 smStarted, started, started_prev, now, endVars, envVars, onRoadCur,
                 onRoadPrev, tickClears, tickWrites, pollSeen, tickStarts, tickNotRun,
                 onroadWrites, stopHist, startVars, initSteps>>

\* Lines 232-238: one iteration of the poll, for the idx-th flag.
tick_poll ==
  /\ pc = "poll"
  /\ LET param == ShutdownParams[idx] IN
       IF flags[param]
         THEN /\ IF param = "dp_device_reset_conf"
                   THEN /\ flags' = [flags EXCEPT ![param] = FALSE]
                        /\ params' = RemoveDp(params)
                   ELSE UNCHANGED <<flags, params>>
              /\ shutdown' = TRUE
              /\ exitReason' = ExitReasonValue(param, now)
              /\ tickWrites' = tickWrites + 1
              /\ pollSeen' = pollSeen \cup {param}
         ELSE UNCHANGED <<flags, params, shutdown, exitReason, tickWrites, pollSeen>>
  /\ IF idx < NParams
       THEN idx' = idx + 1 /\ pc' = pc /\ tickSteps' = tickSteps
       ELSE idx' = 0 /\ pc' = StepAfter("poll") /\ tickSteps' = Append(tickSteps, "poll")
  /\ UNCHANGED <<registered, handler, exc, procVars, isOnroad, initClears, ignore,
                 ignoreIn, smStarted, started, started_prev, now, msg, endVars,
                 envVars, onRoadCur, onRoadPrev, tickClears, tickPubs, tickStarts,
                 tickNotRun, onroadWrites, stopHist, startVars, initSteps>>

\* Lines 240-241: break on shutdown, into the finally clause of main.
tick_check ==
  /\ pc = "check"
  /\ IF LoopBreaks(shutdown)
       THEN /\ loopEnd' = "shutdown"
            /\ pc' = FinallyTarget
            /\ idx' = 1
            /\ LeaveThread
       ELSE /\ loopEnd' = loopEnd
            /\ pc' = "sample"
            /\ idx' = idx
            /\ UNCHANGED <<loopVars, tickHist>>
  /\ UNCHANGED <<registered, handler, exc, procVars, storeVars, reported, deviceAction,
                 exitCode, envVars, stopHist, startVars, initSteps>>

\* An exception raised anywhere inside manager_thread reaches `except Exception`.
thread_raises ==
  /\ pc \in ThreadPcs
  /\ exc' = "Exception"
  /\ loopEnd' = "exception"
  /\ pc' = "except"
  /\ idx' = 0
  /\ LeaveThread
  /\ UNCHANGED <<registered, handler, procVars, storeVars, reported, deviceAction,
                 exitCode, envVars, stopHist, startVars, initSteps>>

\* main, lines 254-256: print the traceback, report to sentry; then finally.
main_except ==
  /\ pc = "except"
  /\ reported' = TRUE
  /\ exc' = "none"
  /\ pc' = FinallyTarget
  /\ idx' = 1
  /\ UNCHANGED <<registered, handler, procVars, storeVars, loopVars, deviceAction, exitCode,
                 loopEnd, envVars, tickHist, stopHist, startVars, initSteps>>

\* ----------------------------------------------------- manager_cleanup
\* Lines 151-152: one iteration of `p.stop(block=False)`.
cleanup_nonblocking ==
  /\ pc = "cleanup_nb"
  /\ IF idx <= Len(CleanupOrder)
       THEN /\ StopNonBlocking(CleanupOrder[idx])
            /\ nbStops' = [nbStops EXCEPT ![CleanupOrder[idx]] = @ + 1]
            /\ idx' = idx + 1
            /\ pc' = pc
       ELSE /\ UNCHANGED <<procState, nbStops>>
            /\ idx' = 1
            /\ pc' = "cleanup_b"
  /\ UNCHANGED <<registered, handler, exc, live, prepared, storeVars, loopVars, endVars,
                 envVars, tickHist, bStops, loopStops, startVars, initSteps>>

\* Lines 155-156: one iteration of `p.stop(block=True)`.
cleanup_blocking ==
  /\ pc = "cleanup_b"
  /\ IF idx <= Len(CleanupOrder)
       THEN /\ StopBlocking(CleanupOrder[idx])
            /\ bStops' = [bStops EXCEPT ![CleanupOrder[idx]] = @ + 1]
            /\ idx' = idx + 1
            /\ pc' = pc
       ELSE /\ UNCHANGED <<procState, live, bStops>>
            /\ idx' = 0
            /\ pc' = "cleanup_end"
  /\ UNCHANGED <<registered, handler, exc, prepared, storeVars, loopVars, endVars, envVars,
                 tickHist, nbStops, loopStops, startVars, initSteps>>

\* Line 158 and the end of the finally clause: a SystemExit in flight is
\* re-raised and leaves the process, otherwise main goes on.
cleanup_end ==
  /\ pc = "cleanup_end"
  /\ IF exc = "SystemExit"
       THEN exitCode' = ExitCodeOf("sigterm") /\ pc' = "exited"
       ELSE exitCode' = exitCode /\ pc' = "device"
  /\ UNCHANGED <<idx, registered, handler, exc, procVars, storeVars, loopVars, reported,
                 deviceAction, loopEnd, envVars, tickHist, stopHist, startVars, initSteps>>

\* main, lines 260-269: the device-level action of the first flag set, in the
\* order DoUninstall, DoReboot, DoShutdown.
main_device ==
  /\ pc = "device"
  /\ deviceAction' = LET acts == DeviceActions(flags)
                     IN  IF acts = <<>> THEN "none"
                         ELSE IF Len(acts) = 1 THEN acts[1] ELSE "several"
  /\ pc' = "sys_exit"
  /\ UNCHANGED <<idx, registered, handler, exc, procVars, storeVars, loopVars, reported,
                 exitCode, loopEnd, envVars, tickHist, stopHist, startVars, initSteps>>

\* --------------------------------------------------------- environment
\* Another process sets one of the shutdown flags in the store.  The flags are
\* read by the poll and by main after the teardown only, so a write is placed
\* right before one of those reads.
env_set_flag ==
  /\ pc \in {"poll", "cleanup_end"}
  /\ \E f \in ParamNames :
       /\ ~flags[f]
       /\ flags' = [flags EXCEPT ![f] = TRUE]
  /\ UNCHANGED <<pc, idx, registered, handler, exc, procVars, exitReason, isOnroad,
                 initClears, params, loopVars, endVars, envVars, tickHist, stopHist,
                 startVars, initSteps>>

\* A launched process is confirmed alive.  The controllers are read by the
\* reconciliation and by the status message only, so the event is placed right
\* before one of those.
env_proc_alive ==
  /\ pc \in {"reconcile", "publish"}
  /\ \E p \in Procs :
       /\ procState[p] = "Starting"
       /\ procState' = [procState EXCEPT ![p] = "Running"]
  /\ UNCHANGED <<pc, idx, registered, handler, exc, live, prepared, storeVars, loopVars,
                 endVars, envVars, tickHist, stopHist, startVars, initSteps>>

\* A running process dies without a stop having been requested.
env_proc_dies ==
  /\ crashes < MaxCrashes
  /\ pc \in {"reconcile", "publish"}
  /\ \E p \in Procs :
       /\ procState[p] = "Running"
       /\ live[p] > 0
       /\ live' = [live EXCEPT ![p] = @ - 1]
  /\ crashes' = crashes + 1
  /\ UNCHANGED <<pc, idx, registered, handler, exc, procState, prepared, storeVars,
                 loopVars, endVars, sigCount, toggles, tickHist, stopHist, startVars,
                 initSteps>>

\* Another process (the settings UI) changes a feature flag of the store
\* between two ticks.
env_toggle ==
  /\ pc = "sample"
  /\ toggles < MaxToggles
  /\ toggles' = toggles + 1
  /\ \E k \in {"dp_device_dm_unavailable", "dp_fileserv"} :
       params' = [params EXCEPT ![k] = BoolValue(~get_bool(params, k))]
  /\ UNCHANGED <<pc, idx, registered, handler, exc, procVars, flags, exitReason,
                 isOnroad, initClears, loopVars, endVars, sigCount, crashes, tickHist,
                 stopHist, startVars, initSteps>>

\* Another process stores a value under a key tagged with an edge category.
env_store_tagged ==
  /\ pc = "sample"
  /\ \E k \in {"key_onroad", "key_offroad"} :
       /\ params[k] = Absent
       /\ params' = [params EXCEPT ![k] = StoredValue(k)]
  /\ UNCHANGED <<pc, idx, registered, handler, exc, procVars, flags, exitReason,
                 isOnroad, initClears, loopVars, endVars, envVars, tickHist,
                 stopHist, startVars, initSteps>>

\* SIGTERM is delivered: the handler of line 250 raises SystemExit where the
\* control thread is.  Inside the try statement the finally clause runs
\* manager_cleanup; anywhere else the SystemExit leaves the process.
sigterm ==
  /\ handler
  /\ pc # "exited"
  /\ sigCount < MaxSignals
  /\ sigCount' = sigCount + 1
  /\ IF pc \in TryPcs
       THEN /\ exc' = "SystemExit"
            /\ loopEnd' = IF loopEnd = "none" THEN "sigterm" ELSE loopEnd
            /\ pc' = FinallyTarget
            /\ idx' = 1
            /\ exitCode' = exitCode
            /\ LeaveThread
       ELSE /\ exc' = "SystemExit"
            /\ loopEnd' = loopEnd
            /\ pc' = "exited"
            /\ idx' = 0
            /\ exitCode' = ExitCodeOf("sigterm")
            /\ UNCHANGED <<loopVars, tickHist>>
  /\ UNCHANGED <<registered, handler, procVars, storeVars, reported, deviceAction,
                 crashes, toggles, stopHist, startVars, initSteps>>

\* ------------------------------------------------------- specifications
Next ==
  \/ manager_init_clear \/ manager_init_defaults \/ manager_init_register
  \/ manager_init_prepare
  \/ main_prepareonly \/ main_install \/ main_failed \/ sys_exit
  \/ mt_ignore \/ mt_onroad \/ mt_first
  \/ tick_sample \/ tick_edge \/ tick_persist \/ tick_reconcile
  \/ tick_publish \/ tick_poll \/ tick_check
  \/ thread_raises \/ main_except
  \/ cleanup_nonblocking \/ cleanup_blocking \/ cleanup_end \/ main_device
  \/ env_set_flag \/ env_proc_alive \/ env_proc_dies

\* The supervisor and its environment, no SIGTERM delivered.
Spec == Init /\ [][Next]_vars

NextSig == Next \/ sigterm

\* The same with SIGTERM deliveries.
SpecSig == Init /\ [][NextSig]_vars

\* A start on a store an earlier run left, every tagged key with a value, in
\* any environment; no shutdown flag, exception or process death.
InitStore ==
  /\ InitControl
  /\ exitReason = NoReason
  /\ reason0 = exitReason
  /\ \E present \in SUBSET StoredKeys : stored = present \cup TaggedKeys
  /\ params = StoreOf(stored)
  /\ \E nb \in BOOLEAN, bl \in BlockLists : environ = [NOBOARD |-> nb, BLOCK |-> bl]
  /\ release \in BOOLEAN
  /\ PC \in BOOLEAN

NextStore ==
  \/ manager_init_clear \/ manager_init_defaults \/ manager_init_register
  \/ manager_init_prepare
  \/ main_prepareonly \/ main_install \/ main_failed \/ sys_exit
  \/ mt_ignore \/ mt_onroad \/ mt_first
  \/ tick_sample \/ tick_edge \/ tick_persist \/ tick_reconcile
  \/ tick_publish \/ tick_poll \/ tick_check
  \/ env_toggle \/ env_store_tagged

\* The supervisor over the stores and environments it may be started in, with
\* feature flags changing while the loop runs.
SpecStore == InitStore /\ [][NextStore]_vars

\* ---------------------------------------------------------- properties
\* The positions of a tick at which its edge step (207-210) has run; at
\* "sample" the tick that just ended is still the current one.
EdgeDonePcs == {"persist", "reconcile", "publish", "poll", "check", "sample"}

\* Teardown has finished for every process: both stops issued, nothing alive.
TeardownDone ==
  \A p \in Procs :
    /\ nbStops[p] = 1
    /\ bStops[p] = 1
    /\ live[p] = 0
    /\ procState[p] \in {"NotStarted", "Stopped", "Crashed"}

\* The flag read true last by the poll, in the order of the poll.
LastSeen ==
  ShutdownParams[CHOOSE i \in 1..NParams :
                   /\ ShutdownParams[i] \in pollSeen
                   /\ \A j \in (i + 1)..NParams : ShutdownParams[j] \notin pollSeen]

\* C1: in every tick the loop clears ClearOnOnroadTransition exactly when
\* onRoad is true and was false the tick before, ClearOnOffroadTransition
\* exactly when onRoad is false and was true the tick before, once, and no
\* other category; a tick with an unchanged onRoad clears nothing.
C1_EdgeClearsExactly ==
  /\ pc \in EdgeDonePcs =>
       /\ tickClears["CLEAR_ON_ONROAD_TRANSITION"] =
            (IF onRoadCur /\ ~onRoadPrev THEN 1 ELSE 0)
       /\ tickClears["CLEAR_ON_OFFROAD_TRANSITION"] =
            (IF ~onRoadCur /\ onRoadPrev THEN 1 ELSE 0)
       /\ tickClears["CLEAR_ON_MANAGER_START"] = 0
       /\ tickClears["DEVELOPMENT_ONLY"] = 0
       /\ (onRoadCur = onRoadPrev => tickClears = NoClears)
  /\ pc = "edge" => tickClears = NoClears

\* A second tick in which onRoad fell from true to false and the off-road
\* category was cleared.
C1_Witness ==
  /\ pc = "check"
  /\ now = 2
  /\ ~onRoadCur /\ onRoadPrev
  /\ tickClears["CLEAR_ON_OFFROAD_TRANSITION"] = 1

\* C2 as claimed: after the poll, a true flag ends the loop in that tick with
\* the reason "<flag> <timestamp>" of a flag read true written before any
\* teardown stop, no true flag writes nothing, and whenever DoReboot was true
\* the reason is "DoReboot <timestamp>".
C2_AsClaimed ==
  /\ pc = "check" =>
       /\ pollSeen # {} =>
            /\ shutdown
            /\ exitReason[1] \in pollSeen /\ exitReason[2] = now
            /\ \A p \in Procs : nbStops[p] = 0 /\ bStops[p] = 0
       /\ pollSeen = {} => ~shutdown /\ tickWrites = 0
       /\ "DoReboot" \in pollSeen => exitReason = <<"DoReboot", now>>
  /\ pc = "sample" => pollSeen = {} /\ ~shutdown

\* C2 amended: the same, the reason naming the flag read true last in the
\* poll order DoUninstall, DoShutdown, DoReboot, dp_device_reset_conf; when
\* DoReboot was true and dp_device_reset_conf was not, it is DoReboot.
C2_LastTrueFlagRecorded ==
  /\ pc = "check" =>
       /\ pollSeen # {} =>
            /\ shutdown
            /\ exitReason = <<LastSeen, now>>
            /\ tickWrites = Cardinality(pollSeen)
            /\ \A p \in Procs : nbStops[p] = 0 /\ bStops[p] = 0
       /\ pollSeen = {} => ~shutdown /\ tickWrites = 0
       /\ ("DoReboot" \in pollSeen /\ "dp_device_reset_conf" \notin pollSeen) =>
            exitReason = <<"DoReboot", now>>
  /\ pc = "sample" => pollSeen = {} /\ ~shutdown
  /\ loopEnd = "shutdown" => pollSeen # {}

\* The poll read DoReboot and the configuration-reset flag true: the reason
\* names the latter.
C2_Witness ==
  /\ pc = "check"
  /\ pollSeen = {"DoReboot", "dp_device_reset_conf"}
  /\ exitReason = <<"dp_device_reset_conf", now>>

\* C3: when the loop ended on a shutdown trigger, every process of the
\* registry, unkillable ones included, gets a non-blocking stop before any
\* blocking stop is issued, then a blocking stop, and the device action and
\* the exit come only after the teardown has finished for all of them.
C3_TeardownBeforeExit ==
  loopEnd = "shutdown" =>
    /\ (pc \in {"device", "sys_exit", "exited"} \/ deviceAction # "none") => TeardownDone
    /\ pc \in CleanupPcs \cup {"device", "sys_exit", "exited"}
    /\ \A p \in Procs : bStops[p] > 0 => \A q \in Procs : nbStops[q] = 1
    /\ exitCode # -1 => pc = "exited"

\* The supervisor has exited after a reboot, and the unkillable camerad, which
\* only the teardown stops, is stopped.
C3_Witness ==
  /\ pc = "exited"
  /\ loopEnd = "shutdown"
  /\ deviceAction = "reboot"
  /\ procState["camerad"] = "Stopped"

\* C4: an exception raised inside manager_thread, before the loop or inside a
\* tick, is caught in main and reported to telemetry, the teardown follows,
\* and the supervisor does not exit while a process is left running.
C4_ExceptionTeardown ==
  loopEnd = "exception" =>
    /\ pc # "except" => reported /\ exc = "none"
    /\ pc \in {"except"} \cup CleanupPcs \cup {"device", "sys_exit", "exited"}
    /\ pc \in {"device", "sys_exit", "exited"} => TeardownDone
    /\ pc = "exited" => \A p \in Procs : live[p] = 0

\* The supervisor has exited after an exception inside the second tick, with
\* processes it had started now stopped.
C4_Witness ==
  /\ pc = "exited"
  /\ loopEnd = "exception"
  /\ now = 2
  /\ procState["uploader"] = "Stopped"
  /\ procState["camerad"] = "Stopped"

\* C5 as claimed: once SIGTERM has been delivered, the teardown runs to
\* completion: the supervisor does not exit while a process it manages has
\* not been stopped and is still alive.
C5_AsClaimed ==
  (pc = "exited" /\ sigCount > 0) =>
    \A p \in Procs :
      /\ live[p] = 0
      /\ procState[p] \notin {"Starting", "Running", "Stopping"}

\* C6: the exit code is 0 after a shutdown trigger (loop break, teardown,
\* device action), and non-zero when no device identity was obtained, in
\* which case the loop was never entered and no process was started.
C6_ExitCodes ==
  /\ (pc = "exited" /\ loopEnd = "shutdown") => exitCode = 0
  /\ (pc = "exited" /\ ~registered) => exitCode # 0 /\ exitCode # -1
  /\ (pc \notin {"manager_init", "init_defaults", "init_register"} /\ ~registered) =>
       /\ pc \in {"start_failed", "exited"}
       /\ now = 0 /\ loopEnd = "none" /\ ~handler
       /\ \A p \in Procs : procState[p] = "NotStarted" /\ live[p] = 0

\* The supervisor has exited with code 1 after a failed registration.
C6_Witness ==
  /\ pc = "exited"
  /\ ~registered
  /\ exitCode = 1

\* C7 as claimed: after a run that entered the loop ends, whatever the cause,
\* LastManagerExitReason was written by that run: it is neither unwritten
\* nor the reason of an earlier run.
C7_AsClaimed ==
  (pc = "exited" /\ loopEnd # "none") =>
    /\ exitReason # NoReason
    /\ exitReason # EarlierReason

\* C7 amended: LastManagerExitReason is written by the shutdown-flag poll
\* only.  After a run that ended on a shutdown flag it names a flag read true
\* by that poll, with that poll's timestamp; after a run in which no poll read
\* a flag true (an exception or a SIGTERM ended it) it holds what it held
\* when the run started.
C7_ReasonOnlyFromPoll ==
  pc = "exited" =>
    /\ loopEnd = "shutdown" =>
         /\ exitReason # NoReason
         /\ exitReason[1] \in pollSeen
         /\ exitReason[2] = now /\ now >= 1
    /\ pollSeen = {} => exitReason = reason0

\* A run ended by an exception inside the loop, the reason of an earlier run
\* still in the store.
C7_Witness ==
  /\ pc = "exited"
  /\ loopEnd = "exception"
  /\ now >= 1
  /\ exitReason = EarlierReason

\* C8: a tick publishes exactly one managerState message, before the poll of
\* the shutdown flags, holding one entry per process of the registry in
\* registry order; so does the tick in which a shutdown trigger is found.
C8_OneMessagePerTick ==
  /\ pc \in {"poll", "check"} =>
       /\ tickPubs = 1
       /\ Len(msg) = NProcs
       /\ \A i \in 1..NProcs :
            /\ msg[i].name = managed_processes[i]
            /\ msg[i].state = procState[managed_processes[i]]
  /\ pc \in {"edge", "persist", "reconcile", "publish"} => tickPubs = 0

\* The tick that found a shutdown flag has published its message, which has an
\* entry for a process never started.
C8_Witness ==
  /\ pc = "check"
  /\ shutdown
  /\ tickPubs = 1
  /\ msg[1] = [name |-> "camerad", state |-> "NotStarted"]

\* C9: no process is started while it is Starting or Running: every registry
\* entry has at most one live OS process, and none while its controller is
\* down.
C9_NoDoubleStart ==
  \A p \in Procs :
    /\ live[p] <= 1
    /\ procState[p] \in {"NotStarted", "Stopped", "Crashed"} => live[p] = 0
    /\ procState[p] = "Starting" => live[p] = 1

\* The reconcile of the first tick has run over a process that the reconcile
\* made before the loop had started and that is still Starting.
C9_Witness ==
  /\ pc = "publish"
  /\ now = 1
  /\ procState["uploader"] = "Starting"
  /\ live["uploader"] = 1

\* C10: no stop is issued to an unkillable process while the loop runs, in
\* the desired set or not; the teardown issues its only stops.
C10_UnkillableNotStopped ==
  \A p \in Procs :
    Unkillable(p) =>
      /\ loopStops[p] = 0
      /\ pc \in ThreadPcs => /\ nbStops[p] = 0 /\ bStops[p] = 0
                             /\ procState[p] \notin {"Stopping", "Stopped"}
      /\ procState[p] \in {"Stopping", "Stopped"} => nbStops[p] = 1

\* Off-road, after the reconcile: the unkillable camerad is not desired and is
\* still up, while the killable dmonitoringd has been stopped.
C10_Witness ==
  /\ pc = "publish"
  /\ ~started
  /\ procState["camerad"] \in {"Starting", "Running"}
  /\ live["camerad"] = 1
  /\ procState["dmonitoringd"] = "Stopped"

\* The positions between the defaults step of manager_init and the first
\* write of manager_thread to the store.
DefaultsDonePcs == {"init_register", "init_prepare", "prepareonly", "install",
                    "start_failed", "mt_ignore"}

\* How many times a step occurs in a list of steps.
Times(steps, step) == Cardinality({i \in 1..Len(steps) : steps[i] = step})

\* C11: once the defaults step of manager_init has run, every key of the
\* defaults list that had a value when the supervisor started still has that
\* value and every other key of the list holds its listed default; the step
\* runs once per start.
C11_DefaultsNeverOverwrite ==
  /\ Times(initSteps, "defaults") <= 1
  /\ pc \in DefaultsDonePcs =>
       /\ Times(initSteps, "defaults") = 1
       /\ \A i \in 1..Len(default_params(PC)) :
            LET k == default_params(PC)[i][1]
                v == default_params(PC)[i][2]
            IN  params[k] = IF k \in stored THEN StoredValue(k) ELSE v

\* A key of the list kept the value it was left with, another one got its
\* default.
C11_Witness ==
  /\ pc = "init_prepare"
  /\ "GsmMetered" \in stored
  /\ "dp_fileserv" \notin stored
  /\ params["GsmMetered"] = "0"
  /\ params["dp_fileserv"] = "0"
  /\ ~PC
  /\ params["LastUpdateTime"] = "utcnow"

\* The ignore list the feature flags of the store give now, with the
\* registration facts and the environment as manager_thread read them.
IgnoreNow == NotRunRecomputed(ignore, params, ignoreIn)

\* The current tick's reconcile (218) has run.
Reconciled == "reconcile" \in ToSet(tickSteps)

\* C12 as claimed: the exclusions used by a tick's reconcile are the union of
\* the exclusions as the feature flags evaluate at that tick.
C12_AsClaimed == Reconciled => ToSet(tickNotRun) = ToSet(IgnoreNow)

\* C12: the exclusions used by every reconcile, the one before the loop
\* included, are the list built once from what manager_thread read before the
\* loop; they are the union as it evaluates at the tick as long as no feature
\* flag changed since.
C12_IgnoreBuiltOnce ==
  /\ (Reconciled \/ (pc = "sample" /\ now = 0)) => tickNotRun = IgnoreListOf(ignoreIn)
  /\ (Reconciled /\ toggles = 0) => ToSet(tickNotRun) = ToSet(IgnoreNow)

\* A feature flag changed while the loop was running, and the reconcile of the
\* next tick used the exclusions of before the change.
C12_Witness ==
  /\ Reconciled
  /\ toggles = 1
  /\ get_bool(params, "dp_device_dm_unavailable")
  /\ ~ignoreIn.dp_device_dm_unavailable
  /\ "dmonitoringd" \notin ToSet(tickNotRun)
  /\ "dmonitoringd" \in ToSet(IgnoreNow)

\* The value write_onroad_params stores for an on-road value.
OnroadText(b) == IF b THEN "True" ELSE "False"

\* C13: the on-road flag is written as false once before the first reconcile;
\* once a tick has passed its persist step the stored flag is the tick's
\* onRoad, written in that tick exactly when onRoad differs from the value of
\* the tick before.
C13_OnroadFlagPersisted ==
  /\ (pc = "mt_first" \/ (pc = "sample" /\ now = 0)) =>
       isOnroad = "False" /\ onroadWrites = 1
  /\ "persist" \in ToSet(tickSteps) =>
       /\ isOnroad = OnroadText(onRoadCur)
       /\ onroadWrites = IF onRoadCur # onRoadPrev THEN 1 ELSE 0

\* A tick that went off-road rewrote the flag, at the end of the tick.
C13_Witness ==
  /\ pc = "check"
  /\ ~onRoadCur
  /\ onRoadPrev
  /\ isOnroad = "False"
  /\ onroadWrites = 1

\* The steps of a tick, in the order of the loop body.
TickOrder == <<"sample", "edge", "persist", "reconcile", "publish", "poll">>

\* C14: the steps of a tick are taken in the order sample, edge clear,
\* persist, reconcile, publish, poll; the next sample is taken after all of
\* them; on a false->true tick the on-road category is cleared and the flag
\* persisted before the tick starts a process.
C14_TickOrder ==
  /\ Len(tickSteps) <= Len(TickOrder)
  /\ tickSteps = SubSeq(TickOrder, 1, Len(tickSteps))
  /\ (pc = "sample" /\ now > 0) => tickSteps = TickOrder
  /\ (pc = "check") => tickSteps = TickOrder
  /\ (onRoadCur /\ ~onRoadPrev /\ now > 0 /\ (Reconciled \/ tickStarts # {})) =>
       /\ tickClears["CLEAR_ON_ONROAD_TRANSITION"] = 1
       /\ params["key_onroad"] = Absent
       /\ isOnroad = "True"

\* A false->true tick started an on-road process, after the clear and the
\* persist.
C14_Witness ==
  /\ pc = "publish"
  /\ onRoadCur
  /\ ~onRoadPrev
  /\ "camerad" \in tickStarts
  /\ tickClears["CLEAR_ON_ONROAD_TRANSITION"] = 1
  /\ isOnroad = "True"

\* A process of the registry has been prepared or started.
SomeProcessTouched ==
  \E p \in Procs : prepared[p] > 0 \/ procState[p] # "NotStarted" \/ live[p] > 0

\* C15: the ClearOnSupervisorStart category is cleared once, by the first
\* step of manager_init and so before any process is prepared or started; the
\* development-only category is cleared by that step iff the build is a
\* release build; the loop clears neither.
C15_StartCategoryClearedOnce ==
  /\ initClears["CLEAR_ON_MANAGER_START"] = IF pc = "manager_init" THEN 0 ELSE 1
  /\ initClears["DEVELOPMENT_ONLY"] = IF pc # "manager_init" /\ release THEN 1 ELSE 0
  /\ tickClears["CLEAR_ON_MANAGER_START"] = 0
  /\ tickClears["DEVELOPMENT_ONLY"] = 0
  /\ SomeProcessTouched => (initSteps # <<>> /\ initSteps[1] = "clear")
  /\ pc # "manager_init" =>
       /\ params["key_manager_start"] = Absent
       /\ params["key_development"] = IF release THEN Absent ELSE StoreOf(stored)["key_development"]

\* A build that is no release build ran a tick: the development-only key is
\* still there, the key cleared on start is gone, the processes were prepared
\* after the clear.
C15_Witness ==
  /\ pc = "check"
  /\ ~release
  /\ params["key_development"] = "1"
  /\ params["key_manager_start"] = Absent
  /\ initSteps = <<"clear", "defaults", "register", "prepare">>
  /\ \A p \in Procs : prepared[p] = 1

\* C16 as claimed: while no tick has run, so with no on-road/off-road
\* transition, the keys of the two edge categories are as the supervisor found
\* them and manager_init has not cleared the categories.
C16_AsClaimed ==
  now = 0 =>
    /\ initClears["CLEAR_ON_ONROAD_TRANSITION"] = 0
    /\ initClears["CLEAR_ON_OFFROAD_TRANSITION"] = 0
    /\ (pc # "sample" =>
          \A k \in {"key_onroad", "key_offroad"} : params[k] = StoreOf(stored)[k])

\* C16: the two edge categories are cleared once each by manager_init, so a
\* start with no transition removes their keys; after that the loop clears
\* the on-road category in the ticks of a false->true edge only and the
\* off-road category in the ticks of a true->false edge only, once.
C16_ClearedAtInitAndOnEdges ==
  /\ \A c \in {"CLEAR_ON_ONROAD_TRANSITION", "CLEAR_ON_OFFROAD_TRANSITION"} :
       initClears[c] = IF pc = "manager_init" THEN 0 ELSE 1
  /\ (pc \notin {"manager_init", "sample"} /\ now = 0) =>
       params["key_onroad"] = Absent /\ params["key_offroad"] = Absent
  /\ "edge" \in ToSet(tickSteps) =>
       /\ tickClears["CLEAR_ON_ONROAD_TRANSITION"] = IF onRoadCur /\ ~onRoadPrev THEN 1 ELSE 0
       /\ tickClears["CLEAR_ON_OFFROAD_TRANSITION"] = IF ~onRoadCur /\ onRoadPrev THEN 1 ELSE 0
       /\ (onRoadCur /\ ~onRoadPrev /\ pc # "sample") => params["key_onroad"] = Absent
       /\ (~onRoadCur /\ onRoadPrev /\ pc # "sample") => params["key_offroad"] = Absent
  /\ "edge" \notin ToSet(tickSteps) =>
       \A c \in Categories : tickClears[c] = 0

\* A key of the on-road category the supervisor found was removed by
\* manager_init, stored again by its writer, and kept by a tick with no edge.
C16_Witness ==
  /\ pc = "check"
  /\ "key_onroad" \in stored
  /\ ~onRoadCur
  /\ ~onRoadPrev
  /\ initClears["CLEAR_ON_ONROAD_TRANSITION"] = 1
  /\ tickClears["CLEAR_ON_ONROAD_TRANSITION"] = 0
  /\ params["key_onroad"] = "1"

\* manager_init has returned.
InitReturnedPcs == {"prepareonly", "install", "sys_exit", "exited", "device", "except"}
                     \cup ThreadPcs \cup CleanupPcs

\* C17: prepare() is called once for every process of the registry, whatever
\* its eligibility and the ignore list, by the last step of manager_init: before
\* manager_thread, its first reconcile and the loop; with PREPAREONLY set, main
\* returns after it with no process started, no stop and no device action.
C17_PreparedOnceBeforeLoop ==
  /\ \A p \in Procs : prepared[p] <= 1
  /\ (pc \in InitReturnedPcs /\ registered) => \A p \in Procs : prepared[p] = 1
  /\ (\E p \in Procs : procState[p] # "NotStarted" \/ live[p] > 0) =>
       \A p \in Procs : prepared[p] = 1
  /\ (pc \in {"sys_exit", "exited"} /\ registered /\ ~handler) =>
       /\ \A p \in Procs :
            /\ procState[p] = "NotStarted"
            /\ live[p] = 0
            /\ nbStops[p] = 0
            /\ bStops[p] = 0
            /\ loopStops[p] = 0
       /\ deviceAction = "none"
       /\ loopEnd = "none"
       /\ exitCode \in {-1, 0}

\* PREPAREONLY: the supervisor has exited right after preparing every
\* process, the on-road-only and the unkillable ones included.
C17_Witness ==
  /\ pc = "exited"
  /\ registered
  /\ ~handler
  /\ exitCode = 0
  /\ \A p \in Procs : prepared[p] = 1 /\ procState[p] = "NotStarted"

\* C18: whatever the monitoring-unavailable flag, the registration facts and
\* the block-list, the ignore list holds dpdmonitoringd when the flag is false,
\* dmonitoringd and dmonitoringmodeld when it is true, so one of the two
\* driver-monitoring variants at least, and uploader when the device is
\* unregistered or a clone or the flag is true.
C18_MonitoringVariantsExclusive ==
  pc \in (ThreadPcs \ {"mt_ignore"}) =>
    LET ign == ToSet(ignore) IN
      /\ ignore = IgnoreListOf(ignoreIn)
      /\ ToSet(ignoreIn.block) \subseteq ign
      /\ ~ignoreIn.dp_device_dm_unavailable => "dpdmonitoringd" \in ign
      /\ ignoreIn.dp_device_dm_unavailable =>
           {"dmonitoringd", "dmonitoringmodeld"} \subseteq ign
      /\ "dpdmonitoringd" \in ign \/ "dmonitoringd" \in ign
      /\ (ignoreIn.dongle_unreg \/ ignoreIn.dp_device_is_clone
            \/ ignoreIn.dp_device_dm_unavailable) => "uploader" \in ign

\* Monitoring unavailable on a registered device that is no clone: the stock
\* variant is ignored, the dp variant is not, uploader is.
C18_Witness ==
  /\ pc = "mt_first"
  /\ ignoreIn.dp_device_dm_unavailable
  /\ ~ignoreIn.dongle_unreg
  /\ ~ignoreIn.dp_device_is_clone
  /\ ignoreIn.block = <<>>
  /\ "dmonitoringd" \in ToSet(ignore)
  /\ "dpdmonitoringd" \notin ToSet(ignore)
  /\ "uploader" \in ToSet(ignore)

\* The device-level action of a shutdown flag.
ActionOf(param) ==
  CASE param = "DoUninstall" -> "uninstall"
    [] param = "DoReboot"    -> "reboot"
    [] param = "DoShutdown"  -> "shutdown"
    [] OTHER                 -> "none"

\* The flags that have a device-level action.
DeviceFlags == {"DoUninstall", "DoReboot", "DoShutdown"}

\* The action of the first flag set in the order main tests them.
PriorityAction(f) ==
  IF f["DoUninstall"] THEN "uninstall"
  ELSE IF f["DoReboot"] THEN "reboot"
  ELSE IF f["DoShutdown"] THEN "shutdown"
  ELSE "none"

\* main has passed its device-level action.
ActedPcs == {"sys_exit", "exited"}

\* C19 as claimed: a device-level action performed after teardown is the
\* action of the flag named in the LastManagerExitReason the loop recorded.
C19_AsClaimed ==
  (pc \in ActedPcs /\ deviceAction # "none") =>
    /\ loopEnd = "shutdown"
    /\ exitReason # NoReason
    /\ deviceAction = ActionOf(exitReason[1])

\* C19: after teardown main performs at most one device-level action: the one
\* of the first flag, in the order DoUninstall, DoReboot, DoShutdown, that is
\* true when main reads the flags after the teardown; it is the action of the
\* flag named in the recorded reason when that flag is the only one of the
\* three that is true.
C19_OneActionByPriority ==
  /\ deviceAction \in {"none", "uninstall", "reboot", "shutdown"}
  /\ deviceAction # "none" => (pc \in ActedPcs /\ TeardownDone)
  /\ (pc \in ActedPcs /\ loopEnd # "none") => deviceAction = PriorityAction(flags)
  /\ (pc \in ActedPcs /\ loopEnd = "shutdown" /\ exitReason[1] \in DeviceFlags
        /\ Cardinality({f \in DeviceFlags : flags[f]}) = 1) =>
       deviceAction = ActionOf(exitReason[1])

\* DoUninstall and DoShutdown were both true at the poll: the recorded reason
\* names DoShutdown, the action performed is the uninstall.
C19_Witness ==
  /\ pc = "exited"
  /\ loopEnd = "shutdown"
  /\ flags["DoUninstall"]
  /\ flags["DoShutdown"]
  /\ ~flags["DoReboot"]
  /\ pollSeen = {"DoUninstall", "DoShutdown"}
  /\ exitReason[1] = "DoShutdown"
  /\ deviceAction = "uninstall"

====
